---- MODULE Spec2Model ----
(***************************************************************************)
(* A model of the DC circuit analyzer: the netlist/stamp layer (Node,      *)
(* Circuit, the component stamps), the MNA assembly and the modified       *)
(* Gauss-Seidel solver (Gauss_seidel::dc_solve) with their callers         *)
(* (Solver::solve_MNA_system, Simulator::run_dc_analysis).                 *)
(*                                                                         *)
(* double values are modelled as exact rationals <<n, d>> in lowest terms  *)
(* with d > 0; the pair <<0, 0>> stands for a non-finite double (the       *)
(* result of a division by 0.0).                                           *)
(***************************************************************************)
EXTENDS Integers, Sequences, FiniteSets, TLC

(***************************************************************************)
(* Bounds of the model.                                                    *)
(***************************************************************************)
\* largest variable index of a directly supplied system (A, b); its
\* solution vector has Dim + 1 slots (slot 0 is ground)
Dim == 2
\* largest max_iter of a directly constructed Gauss_seidel solver
MaxIter == 11
\* cap on max_iter for the solves of a Simulator (whose max_iter is 1000)
IterCap == 3
\* Circuit objects constructed in one process
MaxCircuits == 2
\* netlist lines parsed in one process, over all circuits
MaxLines == 2
\* further dc_solve calls on a directly constructed solver
MaxRecalls == 1
\* assemble_MNA_system calls in one process
MaxAssembles == 2
\* run_dc_analysis calls in one process
MaxRuns == 2

(***************************************************************************)
(* Program constants.                                                      *)
(***************************************************************************)
\* the convergence check runs when converge_iters % 5 == 0
CheckEvery == 5
\* Solver's default max_iter
DefaultMaxIter == 1000

(***************************************************************************)
(* Exact arithmetic standing for double arithmetic.                        *)
(***************************************************************************)
Abs(n) == IF n < 0 THEN -n ELSE n

RECURSIVE GCD(_, _)
GCD(a, b) == IF b = 0 THEN a ELSE GCD(b, a % b)

NonFinite == <<0, 0>>

IsFinite(q) == q[2] # 0

Zero == <<0, 1>>

One == <<1, 1>>

Q(n) == <<n, 1>>

Norm(n, d) ==
    LET g == GCD(Abs(n), d)
    IN  IF n = 0 THEN Zero ELSE <<n \div g, d \div g>>

QNeg(p) == IF IsFinite(p) THEN <<-p[1], p[2]>> ELSE NonFinite

QAdd(p, q) ==
    IF ~IsFinite(p) \/ ~IsFinite(q) THEN NonFinite
    ELSE LET g == GCD(p[2], q[2])
             l == (p[2] \div g) * q[2]
         IN  Norm(p[1] * (l \div p[2]) + q[1] * (l \div q[2]), l)

QSub(p, q) == QAdd(p, QNeg(q))

QMul(p, q) ==
    IF ~IsFinite(p) \/ ~IsFinite(q) THEN NonFinite
    ELSE LET g1 == GCD(Abs(p[1]), q[2])
             g2 == GCD(Abs(q[1]), p[2])
         IN  IF p[1] = 0 \/ q[1] = 0 THEN Zero
             ELSE <<(p[1] \div g1) * (q[1] \div g2), (p[2] \div g2) * (q[2] \div g1)>>

\* p / q in double arithmetic: a zero divisor gives a non-finite value
QDiv(p, q) ==
    IF ~IsFinite(p) \/ ~IsFinite(q) \/ q[1] = 0 THEN NonFinite
    ELSE IF q[1] > 0 THEN QMul(p, <<q[2], q[1]>>)
    ELSE QMul(p, <<-q[2], -q[1]>>)

QAbs(p) == IF IsFinite(p) THEN <<Abs(p[1]), p[2]>> ELSE NonFinite

\* a/b < c/d for a, c >= 0 and b, d > 0, by comparing the integer parts
\* and then the reciprocals of the fractional parts
RECURSIVE FracLess(_, _, _, _)
FracLess(a, b, c, d) ==
    IF a \div b # c \div d THEN a \div b < c \div d
    ELSE IF c % d = 0 THEN FALSE
    ELSE IF a % b = 0 THEN TRUE
    ELSE FracLess(d, c % d, b, a % b)

\* p < q on finite values
QLess(p, q) ==
    IF p[1] < 0 /\ q[1] >= 0 THEN TRUE
    ELSE IF p[1] >= 0 /\ q[1] < 0 THEN FALSE
    ELSE IF p[1] >= 0 THEN FracLess(p[1], p[2], q[1], q[2])
    ELSE FracLess(-q[1], q[2], -p[1], p[2])

\* p > q on doubles; a comparison with a non-finite operand is false (NaN)
QGt(p, q) ==
    /\ IsFinite(p)
    /\ IsFinite(q)
    /\ QLess(q, p)

\* p <= q on doubles
QLeq(p, q) ==
    /\ IsFinite(p)
    /\ IsFinite(q)
    /\ ~QLess(q, p)

\* value == 0.0
IsZero(p) == IsFinite(p) /\ p[1] = 0

(***************************************************************************)
(* State.                                                                  *)
(***************************************************************************)
VARIABLES
    mna_matrix,          \* A of the solve in progress: row -> (col -> value)
    mna_vector,          \* b of the solve in progress: row -> value
    solution,            \* the solution vector: slot -> value, slots 0..size-1
    max_iter,            \* Gauss_seidel::max_iter
    tolerance,           \* Gauss_seidel::tolerance
    damping_factor,      \* Gauss_seidel::damping_factor
    converge_iters,      \* Gauss_seidel::converge_iters
    converged,           \* Gauss_seidel::converged
    lhs_values,          \* Gauss_seidel::lhs_values
    targets,             \* Gauss_seidel::targets
    independent_targets, \* Gauss_seidel::independent_targets
    iter_order,          \* iteration order of the unordered_maps of this build
    pc,                  \* position of the program
    pos,                 \* number of rows of the current sweep already visited
    step,                \* what the last solver step did (row, target, diag, ...)
    node_count,          \* Node::node_count
    valid,               \* Node::valid
    circuits,            \* the Circuit objects of the process, in construction order
    cur,                 \* the circuit of the run_dc_analysis in progress
    thrown,              \* whether the last operation ended by throwing
    calls,               \* operations called so far: lines, assembles, runs
    deployed             \* the circuits for which a deploy_dc_solution completed

solver_vars == <<mna_matrix, mna_vector, solution, max_iter, tolerance,
                 damping_factor, converge_iters, converged, lhs_values,
                 targets, independent_targets, iter_order, pc, pos, step>>

circuit_vars == <<node_count, valid, circuits, cur, thrown, calls, deployed>>

vars == <<solver_vars, circuit_vars>>

(***************************************************************************)
(* Sparse maps.                                                            *)
(***************************************************************************)
\* col_map.find(col) != col_map.end()
Has(map, key) == key \in DOMAIN map

\* the keys of an unordered_map in the iteration order of this build
KeysInOrder(map) == SelectSeq(iter_order, LAMBDA k : k \in DOMAIN map)

\* solution.size()
Size(vec) == Cardinality(DOMAIN vec)

(***************************************************************************)
(* Gauss_seidel: the modified Gauss-Seidel solver.                         *)
(***************************************************************************)
\* initialize without the loop that rewrites targets and without the
\* clear() of independent_targets: entries of an earlier solve survive
initializeKeepingPivots(size) ==
    [lhs_values          |-> [i \in 0..(size - 1) |-> Zero],
     targets             |-> [i \in 0..(size - 1) |->
                                IF i \in DOMAIN targets THEN targets[i] ELSE i],
     independent_targets |-> independent_targets,
     converge_iters      |-> 0,
     converged           |-> FALSE]

\* Gauss_seidel::initialize(size): the solver state at the start of a solve
initialize(size) ==
    [lhs_values          |-> [i \in 0..(size - 1) |-> Zero],
     targets             |-> [i \in 0..(size - 1) |-> i],
     independent_targets |-> {},
     converge_iters      |-> 0,
     converged           |-> FALSE]

\* the test of gauss_seidel.cpp lines 25 and 152: the row holds a coefficient
\* at column targets[row] that is present and not 0.0
HasUsableDiagonal(tg, row, col_map) ==
    /\ Has(col_map, tg[row])
    /\ ~IsZero(col_map[tg[row]])

\* ScanCols without the skip of the columns in independent_targets
RECURSIVE ScanColsAnyColumn(_, _, _, _, _)
ScanColsAnyColumn(cols, col_map, tgt, indep, acc) ==
    IF cols = <<>> THEN acc
    ELSE LET col   == Head(cols)
             value == col_map[col]
             ind   == IF acc.max_idx # tgt THEN FALSE ELSE acc.independent
             next  == IF IsZero(value) THEN acc
                      ELSE IF QLeq(QAbs(value), acc.max_val)
                           THEN [acc EXCEPT !.independent = ind]
                      ELSE [max_val |-> QAbs(value), max_idx |-> col,
                            independent |-> ind]
         IN  ScanColsAnyColumn(Tail(cols), col_map, tgt, indep, next)

\* ScanCols in which a second candidate does not clear `independent`
RECURSIVE ScanColsKeepIndependent(_, _, _, _, _)
ScanColsKeepIndependent(cols, col_map, tgt, indep, acc) ==
    IF cols = <<>> THEN acc
    ELSE LET col   == Head(cols)
             value == col_map[col]
             next  == IF IsZero(value) THEN acc
                      ELSE IF col \in indep THEN acc
                      ELSE IF QLeq(QAbs(value), acc.max_val)
                           THEN acc
                      ELSE [max_val |-> QAbs(value), max_idx |-> col,
                            independent |-> acc.independent]
         IN  ScanColsKeepIndependent(Tail(cols), col_map, tgt, indep, next)

\* ScanCols with < in place of <=: on equal absolute values the last
\* entry met wins
RECURSIVE ScanColsLastWins(_, _, _, _, _)
ScanColsLastWins(cols, col_map, tgt, indep, acc) ==
    IF cols = <<>> THEN acc
    ELSE LET col   == Head(cols)
             value == col_map[col]
             ind   == IF acc.max_idx # tgt THEN FALSE ELSE acc.independent
             next  == IF IsZero(value) THEN acc
                      ELSE IF col \in indep THEN acc
                      ELSE IF QLess(QAbs(value), acc.max_val)
                           THEN [acc EXCEPT !.independent = ind]
                      ELSE [max_val |-> QAbs(value), max_idx |-> col,
                            independent |-> ind]
         IN  ScanColsLastWins(Tail(cols), col_map, tgt, indep, next)

\* the search loop of handle_zero_diagonal over the row's entries, in the
\* map's iteration order; acc holds max_val, max_idx and independent
RECURSIVE ScanCols(_, _, _, _, _)
ScanCols(cols, col_map, tgt, indep, acc) ==
    IF cols = <<>> THEN acc
    ELSE LET col   == Head(cols)
             value == col_map[col]
             ind   == IF acc.max_idx # tgt THEN FALSE ELSE acc.independent
             next  == IF IsZero(value) THEN acc
                      ELSE IF col \in indep THEN acc
                      ELSE IF QLeq(QAbs(value), acc.max_val)
                           THEN [acc EXCEPT !.independent = ind]
                      ELSE [max_val |-> QAbs(value), max_idx |-> col,
                            independent |-> ind]
         IN  ScanCols(Tail(cols), col_map, tgt, indep, next)

\* the swap without the loop of lines 63-68: this row adopts max_idx and the
\* row that held it keeps it
SwapTargetsOneWay(tg, row, max_idx) == [tg EXCEPT ![row] = max_idx]

\* the swap of handle_zero_diagonal: the first row that targets max_idx gives
\* it up for this row's old target, and this row adopts max_idx
SwapTargets(tg, row, max_idx) ==
    LET holders == {i \in DOMAIN tg : tg[i] = max_idx}
        first   == CHOOSE i \in holders : \A j \in holders : i <= j
        tg1     == IF holders = {} THEN tg ELSE [tg EXCEPT ![first] = tg[row]]
    IN  [tg1 EXCEPT ![row] = max_idx]

\* Gauss_seidel::handle_zero_diagonal(row, col_map)
handle_zero_diagonal(tg, indep, row, col_map) ==
    IF HasUsableDiagonal(tg, row, col_map)
    THEN [targets |-> tg, independent_targets |-> indep]
    ELSE LET acc == ScanCols(KeysInOrder(col_map), col_map, tg[row], indep,
                             [max_val |-> Zero, max_idx |-> tg[row],
                              independent |-> TRUE])
         IN  IF acc.max_idx = tg[row]
             THEN [targets |-> tg, independent_targets |-> indep]
             ELSE [targets |-> SwapTargets(tg, row, acc.max_idx),
                   independent_targets |->
                       IF acc.independent THEN indep \cup {acc.max_idx}
                       ELSE indep]

\* the sum of compute_row_update: value * solution[col] over col != target
RECURSIVE RowSum(_, _, _, _)
RowSum(cols, col_map, tgt, sol) ==
    IF cols = <<>> THEN Zero
    ELSE LET col  == Head(cols)
             rest == RowSum(Tail(cols), col_map, tgt, sol)
         IN  IF col # tgt THEN QAdd(QMul(col_map[col], sol[col]), rest)
             ELSE rest

\* mna_vector[row], 0.0 when absent
Rhs(vec, row) == IF Has(vec, row) THEN vec[row] ELSE Zero

\* the damped update of compute_row_update
Damped(damping, x_new, x_old) ==
    QAdd(QMul(damping, x_new), QMul(QSub(One, damping), x_old))

\* compute_row_update that sums over x as it was when the solve started
\* (all 0.0) instead of the current contents of x
compute_row_updateFromStart(tg, damping, row, col_map, vec, sol) ==
    LET tgt   == tg[row]
        sum   == RowSum(KeysInOrder(col_map), col_map, tgt,
                        [i \in DOMAIN sol |-> Zero])
        diag  == IF Has(col_map, tgt) THEN col_map[tgt] ELSE Zero
        x_new == QDiv(QSub(Rhs(vec, row), sum), diag)
        x     == Damped(damping, x_new, sol[tgt])
    IN  [solution  |-> [sol EXCEPT ![tgt] = x],
         lhs_value |-> QAdd(sum, QMul(diag, x)),
         diag      |-> diag,
         sum       |-> sum]

\* Gauss_seidel::compute_row_update(row, col_map, mna_vector, solution)
compute_row_update(tg, damping, row, col_map, vec, sol) ==
    LET tgt   == tg[row]
        sum   == RowSum(KeysInOrder(col_map), col_map, tgt, sol)
        diag  == IF Has(col_map, tgt) THEN col_map[tgt] ELSE Zero
        x_new == QDiv(QSub(Rhs(vec, row), sum), diag)
        x     == Damped(damping, x_new, sol[tgt])
    IN  [solution  |-> [sol EXCEPT ![tgt] = x],
         lhs_value |-> QAdd(sum, QMul(diag, x)),
         diag      |-> diag,
         sum       |-> sum]

\* Gauss_seidel::check_convergence(mna_vector, size)
check_convergence(lhs, vec, tol, size) ==
    \A i \in 0..(size - 1) : ~QGt(QAbs(QSub(lhs[i], Rhs(vec, i))), tol)

\* RowSkipped without the skip rule: every row is updated
RowSkippedNever(tg, row, col_map) == FALSE

\* the skip rule of dc_solve (gauss_seidel.cpp line 152)
RowSkipped(tg, row, col_map) == ~HasUsableDiagonal(tg, row, col_map)

NoStep == [kind |-> "none", row |-> 0, target |-> 0, diag |-> Zero, iter |-> 0]

\* LoopContinues with the bound included: converge_iters <= max_iter
LoopContinuesInclusive(iters, maxit) == iters <= maxit

\* a loop test that never ends the loop
LoopContinuesForever(iters, maxit) == TRUE

\* the loop test of dc_solve: converge_iters < max_iter
LoopContinues(iters, maxit) == iters < maxit

\* dc_solve is entered: initialize(solution.size()) and the loop's start
SolveStart ==
    /\ pc = "call"
    /\ LET st == initialize(Size(solution))
       IN  /\ lhs_values' = st.lhs_values
           /\ targets' = st.targets
           /\ independent_targets' = st.independent_targets
           /\ converged' = st.converged
    /\ converge_iters' = 1
    /\ pc' = IF LoopContinues(1, max_iter) THEN "sweep" ELSE "done"
    /\ pos' = 0
    /\ step' = NoStep
    /\ UNCHANGED <<mna_matrix, mna_vector, solution, max_iter, tolerance,
                   damping_factor, iter_order, circuit_vars>>

\* whether the pass of the loop over `row` indexes targets, lhs_values and
\* solution (vectors of solution.size() elements) inside their bounds:
\* targets[row] and lhs_values[row] always, solution[col] for every column
\* of the row when the row is updated
AccessInBounds(tg, indep, row, col_map, sol) ==
    /\ row \in DOMAIN tg
    /\ LET hz == handle_zero_diagonal(tg, indep, row, col_map)
       IN  \/ RowSkipped(hz.targets, row, col_map)
           \/ \A col \in DOMAIN col_map : col \in DOMAIN sol

\* one pass of the loop over the rows (gauss_seidel.cpp lines 137-168)
RowStep ==
    /\ pc = "sweep"
    /\ pos < Len(KeysInOrder(mna_matrix))
    /\ AccessInBounds(targets, independent_targets,
                      KeysInOrder(mna_matrix)[pos + 1],
                      mna_matrix[KeysInOrder(mna_matrix)[pos + 1]], solution)
    /\ LET row     == KeysInOrder(mna_matrix)[pos + 1]
           col_map == mna_matrix[row]
           hz      == handle_zero_diagonal(targets, independent_targets,
                                           row, col_map)
           up      == compute_row_update(hz.targets, damping_factor, row,
                                         col_map, mna_vector, solution)
       IN  /\ targets' = hz.targets
           /\ independent_targets' = hz.independent_targets
           /\ IF RowSkipped(hz.targets, row, col_map)
              THEN /\ UNCHANGED <<solution, lhs_values>>
                   /\ step' = [kind |-> "skip", row |-> row,
                               target |-> hz.targets[row], diag |-> Zero,
                               iter |-> converge_iters]
              ELSE /\ solution' = up.solution
                   /\ lhs_values' = [lhs_values EXCEPT ![row] = up.lhs_value]
                   /\ step' = [kind |-> "update", row |-> row,
                               target |-> hz.targets[row], diag |-> up.diag,
                               iter |-> converge_iters]
    /\ pos' = pos + 1
    /\ UNCHANGED <<mna_matrix, mna_vector, max_iter, tolerance,
                   damping_factor, converge_iters, converged, iter_order, pc,
                   circuit_vars>>

\* a pass of the loop over a row whose key or column keys lie outside the
\* vectors: operator[] beyond the end of a std::vector is undefined
\* behaviour, after which nothing is known about the process
OutOfBounds ==
    /\ pc = "sweep"
    /\ pos < Len(KeysInOrder(mna_matrix))
    /\ ~AccessInBounds(targets, independent_targets,
                       KeysInOrder(mna_matrix)[pos + 1],
                       mna_matrix[KeysInOrder(mna_matrix)[pos + 1]], solution)
    /\ pc' = "undefined"
    /\ step' = [kind |-> "undefined",
                row |-> KeysInOrder(mna_matrix)[pos + 1], target |-> 0,
                diag |-> Zero, iter |-> converge_iters]
    /\ UNCHANGED <<mna_matrix, mna_vector, solution, max_iter, tolerance,
                   damping_factor, converge_iters, converged, lhs_values,
                   targets, independent_targets, iter_order, pos,
                   circuit_vars>>

\* CheckDue with the check made after every sweep
CheckDueEverySweep(iters) == TRUE

\* whether the sweep that just ended is followed by a convergence check
CheckDue(iters) == iters % CheckEvery = 0

\* the end of a sweep (gauss_seidel.cpp lines 178-188): the periodic
\* convergence check, the return on convergence, the loop's increment and test
EndSweep ==
    /\ pc = "sweep"
    /\ pos = Len(KeysInOrder(mna_matrix))
    /\ LET checked == CheckDue(converge_iters)
           conv    == check_convergence(lhs_values, mna_vector, tolerance,
                                        Size(solution))
       IN  /\ converged' = IF checked THEN conv ELSE converged
           /\ IF checked /\ conv
              THEN /\ pc' = "done"
                   /\ UNCHANGED converge_iters
              ELSE /\ converge_iters' = converge_iters + 1
                   /\ pc' = IF LoopContinues(converge_iters + 1, max_iter)
                            THEN "sweep" ELSE "done"
           /\ step' = [kind |-> IF checked THEN "check" ELSE "nocheck",
                       row |-> 0, target |-> 0, diag |-> Zero,
                       iter |-> converge_iters]
    /\ pos' = 0
    /\ UNCHANGED <<mna_matrix, mna_vector, solution, max_iter, tolerance,
                   damping_factor, lhs_values, targets, independent_targets,
                   iter_order, circuit_vars>>

(***************************************************************************)
(* The solver on its own: a Gauss_seidel object is constructed with some   *)
(* (max_iter, tolerance, damping_factor) and dc_solve is called on a       *)
(* system (A, b) with a pre-sized, zero-filled solution vector.            *)
(***************************************************************************)
\* the permutations of a finite set, as sequences
Orders(S) ==
    {p \in [1..Cardinality(S) -> S] : \A i, j \in 1..Cardinality(S) :
                                        p[i] = p[j] => i = j}

\* the coefficients of the supplied systems (0.0 may be stored explicitly)
CoefValues == {Q(-1), Zero, One}

\* the right-hand sides of the supplied systems
RhsValues == {One}

\* damping factors in (0, 1]
DampingValues == {<<1, 2>>, One}

ToleranceValues == {<<1, 100>>}

\* max_iter of the constructed solvers: no sweep, one sweep, the sweeps up to
\* the first convergence check, one sweep more, and MaxIter
MaxIterValues == {1, 2, CheckEvery + 1, CheckEvery + 2, MaxIter}

\* the sparse matrix that holds value v[c] at every cell c of cells
MatrixOf(cells, v) ==
    [r \in {c[1] : c \in cells} |->
        [k \in {c[2] : c \in {d \in cells : d[1] = r}} |-> v[<<r, k>>]]]

SolverInit ==
    /\ \E cells \in SUBSET ((1..Dim) \X (1..Dim)) :
         \E v \in [cells -> CoefValues] :
            mna_matrix = MatrixOf(cells, v)
    /\ \E rows \in SUBSET (1..Dim) : mna_vector \in [rows -> RhsValues]
    /\ solution = [i \in 0..Dim |-> Zero]
    /\ max_iter \in MaxIterValues
    /\ tolerance \in ToleranceValues
    /\ damping_factor \in DampingValues
    /\ iter_order \in Orders(1..Dim)
    /\ converge_iters = 0
    /\ converged = FALSE
    /\ lhs_values = <<>>
    /\ targets = <<>>
    /\ independent_targets = {}
    /\ pc = "call"
    /\ pos = 0
    /\ step = NoStep
    /\ node_count = 0
    /\ valid = FALSE
    /\ circuits = <<>>
    /\ cur = 0
    /\ thrown = FALSE
    /\ calls = [lines |-> 0, assembles |-> 0, runs |-> 0]
    /\ deployed = {}

\* dc_solve is called once more on the same solver object, with the same
\* system and a solution vector that the caller has zero-filled again
SolveAgain ==
    /\ pc = "done"
    /\ cur = 0
    /\ calls.runs < MaxRecalls
    /\ LET st == initialize(Size(solution))
       IN  /\ lhs_values' = st.lhs_values
           /\ targets' = st.targets
           /\ independent_targets' = st.independent_targets
           /\ converged' = st.converged
    /\ solution' = [i \in DOMAIN solution |-> Zero]
    /\ converge_iters' = 1
    /\ pc' = IF LoopContinues(1, max_iter) THEN "sweep" ELSE "done"
    /\ pos' = 0
    /\ step' = NoStep
    /\ calls' = [calls EXCEPT !.runs = @ + 1]
    /\ UNCHANGED <<mna_matrix, mna_vector, max_iter, tolerance,
                   damping_factor, iter_order, node_count, valid, circuits,
                   cur, thrown, deployed>>

SolverNext == SolveStart \/ RowStep \/ EndSweep \/ SolveAgain

SolverSpec == SolverInit /\ [][SolverNext]_vars

(***************************************************************************)
(* Properties of the solver.                                               *)
(***************************************************************************)
\* the left-hand side of equation row at sol: the sum of A[row][c] * sol[c]
Lhs(row, sol) ==
    RowSum(KeysInOrder(mna_matrix[row]), mna_matrix[row], -1, sol)

\* |A[row] . sol - b[row]| <= tolerance
RowSolved(row, sol) ==
    QLeq(QAbs(QSub(Lhs(row, sol), Rhs(mna_vector, row))), tolerance)

\* the convergence check of the sweep that just ended was made and passed
LastCheckPassed ==
    /\ step.kind = "check"
    /\ check_convergence(lhs_values, mna_vector, tolerance, Size(solution))

\* C1: a row update runs only for a row that holds a present, nonzero
\* coefficient at column targets[row]: the divisor diag of
\* (rhs - sum) / diag is never 0, and no slot of the solution is non-finite.
C1_NoDivisionByZero ==
    /\ step.kind = "update" =>
          /\ Has(mna_matrix[step.row], step.target)
          /\ ~IsZero(mna_matrix[step.row][step.target])
          /\ step.diag = mna_matrix[step.row][step.target]
    /\ \A i \in DOMAIN solution : IsFinite(solution[i])

\* a row without its own diagonal was re-pivoted and updated, while another
\* row of the same system was skipped for lack of a usable coefficient
C1_Witness ==
    /\ step.kind = "update"
    /\ step.target # step.row
    /\ ~Has(mna_matrix[step.row], step.row)
    /\ \E r \in DOMAIN mna_matrix :
          /\ r # step.row
          /\ ~HasUsableDiagonal(targets, r, mna_matrix[r])

\* C2: whenever dc_solve has returned with converged = true, every equation
\* of A holds at the returned x within the tolerance.
C2_ConvergedSolves ==
    (pc = "done" /\ converged) =>
        \A row \in DOMAIN mna_matrix : RowSolved(row, solution)

\* the rows that the state's targets let a sweep update
UsableRows ==
    {r \in DOMAIN mna_matrix : HasUsableDiagonal(targets, r, mna_matrix[r])}

\* the last row, in iteration order, that the state's targets let a sweep
\* update (0 when there is none); the rows after it were skipped and left
\* the targets alone, so this is the row of the sweep's last update
LastUsableRow ==
    LET rows == KeysInOrder(mna_matrix)
        idx  == {i \in 1..Len(rows) : rows[i] \in UsableRows}
    IN  IF idx = {} THEN 0
        ELSE rows[CHOOSE i \in idx : \A j \in idx : j <= i]

\* C9: when dc_solve has returned without a passed convergence check,
\* converged is false, the iteration budget is used up (converge_iters =
\* max_iter), every slot of the solution is a finite value, and the solution
\* is as the last sweep left it: the left-hand side that the sweep's last row
\* update recorded is the left-hand side of that row at the returned x.
C9_ExhaustedReturn ==
    (pc = "done" /\ ~LastCheckPassed) =>
        /\ ~converged
        /\ converge_iters = max_iter
        /\ \A i \in DOMAIN solution : IsFinite(solution[i])
        /\ (max_iter > 1 /\ LastUsableRow # 0) =>
              lhs_values[LastUsableRow] = Lhs(LastUsableRow, solution)

\* a solve has returned after its last sweep without convergence, with a
\* solution that the sweeps have written
C9_Witness ==
    /\ pc = "done"
    /\ ~converged
    /\ converge_iters = max_iter
    /\ converge_iters > CheckEvery
    /\ \E i \in DOMAIN solution : ~IsZero(solution[i])

\* C10: a convergence check is made only after a sweep whose number is a
\* positive multiple of 5, and once a check has passed the solve has
\* returned: converged holds only in the returned state, with an iteration
\* count that is a positive multiple of 5.
C10_CheckCadence ==
    /\ step.kind = "check" => (step.iter > 0 /\ step.iter % 5 = 0)
    /\ step.kind = "nocheck" => step.iter % 5 # 0
    /\ converged =>
          /\ pc = "done"
          /\ step.kind = "check"
          /\ converge_iters > 0
          /\ converge_iters % 5 = 0

\* a solve whose first check failed has converged at the second check
C10_Witness ==
    /\ pc = "done"
    /\ converged
    /\ converge_iters = 2 * CheckEvery


\* the state that initialize leaves for a solution vector of the given size
Reinitialized(size) ==
    /\ targets = [i \in 0..(size - 1) |-> i]
    /\ independent_targets = {}
    /\ lhs_values = [i \in 0..(size - 1) |-> Zero]
    /\ ~converged

\* C11: every call of dc_solve starts its first sweep from re-initialized
\* solver state (targets[i] = i, no independent mark, lhs_values all 0.0,
\* converged false), whatever an earlier solve on the same object left
C11_FreshStart ==
    (pc \in {"sweep", "done"} /\ step.kind = "none") =>
        /\ Reinitialized(Size(solution))
        /\ converge_iters = 1

\* a second solve has just started on a system whose first row in iteration
\* order lacks a usable diagonal but has a nonzero coefficient: the first
\* solve re-pivoted it and left targets that are not the identity
C11_Witness ==
    /\ calls.runs = 1
    /\ cur = 0
    /\ pc = "sweep"
    /\ step.kind = "none"
    /\ \E row \in DOMAIN mna_matrix :
          /\ row = KeysInOrder(mna_matrix)[1]
          /\ ~HasUsableDiagonal(targets, row, mna_matrix[row])
          /\ \E col \in DOMAIN mna_matrix[row] :
                ~IsZero(mna_matrix[row][col])

(***************************************************************************)
(* Node, Circuit and the components.                                       *)
(***************************************************************************)
\* the node names of the netlists; "0" is the name of ground
NodeNames == {"0", "1", "2"}

\* an empty std::map / std::unordered_map
EmptyMap == [k \in {} |-> 0]

\* Node::Node(name) with Node::node_count = nc: id(node_count++), voltage(0.0)
Node(nc) == [id |-> nc, voltage |-> Zero]

\* Circuit::Circuit with Node::node_count = nc: the ground node is created
\* by new Node("0") and put in `nodes` only
Circuit(nc) ==
    [c  |-> [nodes          |-> [n \in {"0"} |-> Node(nc)],
             nodeId_map     |-> EmptyMap,
             components     |-> EmptyMap,
             extraVarId_map |-> EmptyMap,
             mna_matrix     |-> EmptyMap,
             mna_vector     |-> EmptyMap],
     nc |-> nc + 1]

\* Circuit::add_node on the pair w = [c, nc] of a circuit and node_count
add_node(w, name) ==
    IF name \in DOMAIN w.c.nodes
    THEN w
    ELSE [c  |-> [w.c EXCEPT
                    !.nodes = [n \in DOMAIN w.c.nodes \cup {name} |->
                                 IF n = name THEN Node(w.nc)
                                 ELSE w.c.nodes[n]],
                    !.nodeId_map = [i \in DOMAIN w.c.nodeId_map \cup {w.nc} |->
                                      IF i = w.nc THEN name
                                      ELSE w.c.nodeId_map[i]]],
          nc |-> w.nc + 1]

\* components[id] = comp
PutComponent(c, id, comp) ==
    [c EXCEPT !.components = [k \in DOMAIN c.components \cup {id} |->
                                IF k = id THEN comp ELSE c.components[k]]]

\* extraVarId_map[vc_id] = "I" + id
PutExtraVar(c, vc_id, id) ==
    [c EXCEPT !.extraVarId_map =
                 [k \in DOMAIN c.extraVarId_map \cup {vc_id} |->
                    IF k = vc_id THEN id ELSE c.extraVarId_map[k]]]

\* a component object: terminals (node names), value, the index of its
\* branch current (-1 when it has none) and the deployed current
Component(kind, n1, n2, value, vc_id) ==
    [kind |-> kind, ni |-> n1, nj |-> n2, value |-> value, vc_id |-> vc_id,
     current |-> Zero]

\* Circuit::add_resistor: throws on a negative resistance or a known id
add_resistor(w, id, n1, n2, resistance) ==
    IF QLess(resistance, Zero) \/ id \in DOMAIN w.c.components
    THEN [c |-> w.c, nc |-> w.nc, thrown |-> TRUE]
    ELSE [c |-> PutComponent(w.c, id, Component("R", n1, n2, resistance, -1)),
          nc |-> w.nc, thrown |-> FALSE]

\* the index that the constructor of a voltage source takes for its branch
\* current: the next value of Node::node_count
Voltage_source_vc_id(nc) == nc

\* Circuit::add_voltage_source
add_voltage_source(w, id, n1, n2, voltage) ==
    IF id \in DOMAIN w.c.components
    THEN [c |-> w.c, nc |-> w.nc, thrown |-> TRUE]
    ELSE [c |-> PutExtraVar(
                   PutComponent(w.c, id, Component("V", n1, n2, voltage,
                                                   Voltage_source_vc_id(w.nc))),
                   Voltage_source_vc_id(w.nc), id),
          nc |-> w.nc + 1, thrown |-> FALSE]

\* Circuit::add_current_source
add_current_source(w, id, n1, n2, current) ==
    IF id \in DOMAIN w.c.components
    THEN [c |-> w.c, nc |-> w.nc, thrown |-> TRUE]
    ELSE [c |-> PutComponent(w.c, id, Component("I", n1, n2, current, -1)),
          nc |-> w.nc, thrown |-> FALSE]

\* Inductor::Inductor: vc_id(Node::node_count++)
Inductor_vc_id(nc) == nc

\* Circuit::add_inductor: the inductor is created and its branch current
\* registered in extraVarId_map
add_inductor(w, id, n1, n2, inductance) ==
    IF id \in DOMAIN w.c.components
    THEN [c |-> w.c, nc |-> w.nc, thrown |-> TRUE]
    ELSE [c |-> PutExtraVar(
                   PutComponent(w.c, id, Component("L", n1, n2, inductance,
                                                   Inductor_vc_id(w.nc))),
                   Inductor_vc_id(w.nc), id),
          nc |-> w.nc + 1, thrown |-> FALSE]

\* Circuit::add_capacitor
add_capacitor(w, id, n1, n2, capacitance) ==
    IF id \in DOMAIN w.c.components
    THEN [c |-> w.c, nc |-> w.nc, thrown |-> TRUE]
    ELSE [c |-> PutComponent(w.c, id, Component("C", n1, n2, capacitance, -1)),
          nc |-> w.nc, thrown |-> FALSE]

\* one line "id node1 node2 value" of Circuit::parse_netlist: both nodes are
\* added, then the component named by the first letter of the id
parse_line(w, id, n1, n2, value) ==
    LET w2 == add_node(add_node(w, n1), n2)
    IN  CASE id[1] = "R" -> add_resistor(w2, id, n1, n2, value)
          [] id[1] = "V" -> add_voltage_source(w2, id, n1, n2, value)
          [] id[1] = "I" -> add_current_source(w2, id, n1, n2, value)
          [] id[1] = "L" -> add_inductor(w2, id, n1, n2, value)
          [] id[1] = "C" -> add_capacitor(w2, id, n1, n2, value)
          [] OTHER       -> [c |-> w2.c, nc |-> w2.nc, thrown |-> TRUE]


(***************************************************************************)
(* The MNA stamps (get_contribution) and Circuit::assemble_MNA_system.     *)
(***************************************************************************)
\* the ground test of the stamps, on a node's index
NotGround(id) == id # 0

\* Resistor_contribution without the stamp on (j, i)
Resistor_contributionOneSided(i, j, resistance) ==
    LET G == QDiv(One, resistance)
    IN  [matrixStamps |->
            <<<<i, i, G>>>> \o
            (IF NotGround(i) /\ NotGround(j)
             THEN <<<<j, j, G>>, <<i, j, QNeg(G)>>>>
             ELSE <<>>),
         vectorStamps |-> <<>>]

\* Resistor::get_contribution for terminals with indices i, j: the stamp
\* on (i, i) is unconditional, the three others need both ends off ground
Resistor_contribution(i, j, resistance) ==
    LET G == QDiv(One, resistance)
    IN  [matrixStamps |->
            <<<<i, i, G>>>> \o
            (IF NotGround(i) /\ NotGround(j)
             THEN <<<<j, j, G>>, <<i, j, QNeg(G)>>, <<j, i, QNeg(G)>>>>
             ELSE <<>>),
         vectorStamps |-> <<>>]

\* Voltage_source::get_contribution with branch-current index vc
Voltage_source_contribution(i, j, vc, voltage) ==
    [matrixStamps |->
        (IF NotGround(i) THEN <<<<i, vc, One>>, <<vc, i, One>>>> ELSE <<>>) \o
        (IF NotGround(j) THEN <<<<j, vc, One>>, <<vc, j, Q(-1)>>>> ELSE <<>>),
     vectorStamps |->
        (IF NotGround(i) THEN <<<<i, QNeg(voltage)>>>> ELSE <<>>) \o
        (IF NotGround(j) THEN <<<<j, voltage>>>> ELSE <<>>)]

\* Current_source::get_contribution
Current_source_contribution(i, j, current) ==
    [matrixStamps |-> <<>>,
     vectorStamps |->
        (IF NotGround(i) THEN <<<<i, QNeg(current)>>>> ELSE <<>>) \o
        (IF NotGround(j) THEN <<<<j, current>>>> ELSE <<>>)]

\* Inductor::get_contribution: a 0 V source in DC
Inductor_contribution(i, j, vc) ==
    [matrixStamps |->
        (IF NotGround(i) THEN <<<<i, vc, One>>, <<vc, i, One>>>> ELSE <<>>) \o
        (IF NotGround(j) THEN <<<<j, vc, Q(-1)>>, <<vc, j, Q(-1)>>>> ELSE <<>>),
     vectorStamps |-> <<>>]

\* Capacitor::get_contribution: an open circuit in DC, no stamp
Capacitor_contribution == [matrixStamps |-> <<>>, vectorStamps |-> <<>>]

\* component.second->get_contribution() for a component of circuit c
get_contribution(c, comp) ==
    LET i == c.nodes[comp.ni].id
        j == c.nodes[comp.nj].id
    IN  CASE comp.kind = "R" -> Resistor_contribution(i, j, comp.value)
          [] comp.kind = "V" ->
                 Voltage_source_contribution(i, j, comp.vc_id, comp.value)
          [] comp.kind = "I" -> Current_source_contribution(i, j, comp.value)
          [] comp.kind = "L" -> Inductor_contribution(i, j, comp.vc_id)
          [] OTHER           -> Capacitor_contribution

\* StampCell with = in place of +=: a stamp overwrites the cell
StampCellOverwrite(m, row, col, value) ==
    LET old_row == IF row \in DOMAIN m THEN m[row] ELSE EmptyMap
        new_row == [k \in DOMAIN old_row \cup {col} |->
                      IF k = col THEN value ELSE old_row[k]]
    IN  [k \in DOMAIN m \cup {row} |-> IF k = row THEN new_row ELSE m[k]]

\* mna_matrix[row][col] += value, operator[] creating what is absent
StampCell(m, row, col, value) ==
    LET old_row == IF row \in DOMAIN m THEN m[row] ELSE EmptyMap
        old     == IF col \in DOMAIN old_row THEN old_row[col] ELSE Zero
        new_row == [k \in DOMAIN old_row \cup {col} |->
                      IF k = col THEN QAdd(old, value) ELSE old_row[k]]
    IN  [k \in DOMAIN m \cup {row} |-> IF k = row THEN new_row ELSE m[k]]

\* mna_vector[row] += value
StampEntry(b, row, value) ==
    [k \in DOMAIN b \cup {row} |->
       IF k = row
       THEN QAdd(IF row \in DOMAIN b THEN b[row] ELSE Zero, value)
       ELSE b[k]]

\* the loop over contrib.matrixStamps
RECURSIVE StampMatrix(_, _)
StampMatrix(m, stamps) ==
    IF stamps = <<>> THEN m
    ELSE StampMatrix(StampCell(m, Head(stamps)[1], Head(stamps)[2],
                               Head(stamps)[3]), Tail(stamps))

\* the loop over contrib.vectorStamps
RECURSIVE StampVector(_, _)
StampVector(b, stamps) ==
    IF stamps = <<>> THEN b
    ELSE StampVector(StampEntry(b, Head(stamps)[1], Head(stamps)[2]),
                     Tail(stamps))

\* the loop of assemble_MNA_system over the components `ids` still to stamp
RECURSIVE StampAll(_, _, _, _)
StampAll(c, ids, m, b) ==
    IF ids = {} THEN [mna_matrix |-> m, mna_vector |-> b]
    ELSE LET id      == CHOOSE k \in ids : TRUE
             contrib == get_contribution(c, c.components[id])
         IN  StampAll(c, ids \ {id}, StampMatrix(m, contrib.matrixStamps),
                      StampVector(b, contrib.vectorStamps))

\* Circuit::assemble_MNA_system: mna_matrix is cleared, mna_vector is not
assemble_MNA_system(c) ==
    LET sys == StampAll(c, DOMAIN c.components, EmptyMap, c.mna_vector)
    IN  [c EXCEPT !.mna_matrix = sys.mna_matrix,
                  !.mna_vector = sys.mna_vector]

\* std::vector::resize(n, 0.0): elements that stay keep their value
Resize(vec, n) ==
    [i \in 0..(n - 1) |-> IF i \in DOMAIN vec THEN vec[i] ELSE Zero]

\* whether deployment stores solution[i] as the current of a component
HasCurrent(comp) == comp.kind \in {"V", "L"}

\* the indices 1 .. solution.size()-1 that are neither in nodeId_map nor in
\* extraVarId_map: deployment throws at the first of them
Unmapped(c, sol) ==
    {i \in DOMAIN sol : /\ i >= 1
                        /\ i \notin DOMAIN c.nodeId_map
                        /\ i \notin DOMAIN c.extraVarId_map}

\* the indices that deployment reaches
Deployed(c, sol) ==
    {i \in DOMAIN sol : i >= 1 /\ \A u \in Unmapped(c, sol) : i < u}

\* Circuit::deploy_dc_solution: node voltages and branch currents are
\* taken from the solution, index by index
deploy_dc_solution(c, sol) ==
    [c EXCEPT
       !.nodes = [n \in DOMAIN c.nodes |->
                    IF /\ c.nodes[n].id \in Deployed(c, sol)
                       /\ c.nodes[n].id \in DOMAIN c.nodeId_map
                    THEN [c.nodes[n] EXCEPT !.voltage = sol[c.nodes[n].id]]
                    ELSE c.nodes[n]],
       !.components = [k \in DOMAIN c.components |->
                    IF /\ HasCurrent(c.components[k])
                       /\ c.components[k].vc_id \in Deployed(c, sol)
                       /\ c.components[k].vc_id \notin DOMAIN c.nodeId_map
                    THEN [c.components[k] EXCEPT
                            !.current = sol[c.components[k].vc_id]]
                    ELSE c.components[k]]]


(***************************************************************************)
(* The process: Circuit objects are constructed, netlist lines parsed,     *)
(* systems assembled, and one Simulator runs DC analyses.                  *)
(***************************************************************************)
\* get_voltage_drop of a component of circuit c: a Resistor, Capacitor or Current_source throws unless Node::valid and
\* returns ni->voltage - nj->voltage; a Voltage_source returns its voltage
\* and an Inductor 0.0
get_voltage_drop(c, comp) ==
    CASE comp.kind = "V" -> [thrown |-> FALSE, value |-> comp.value]
      [] comp.kind = "L" -> [thrown |-> FALSE, value |-> Zero]
      [] OTHER ->
           IF ~valid
           THEN [thrown |-> TRUE, value |-> Zero]
           ELSE [thrown |-> FALSE,
                 value  |-> QSub(c.nodes[comp.ni].voltage,
                                 c.nodes[comp.nj].voltage)]

\* the first letters of the component ids
Kinds == {"R", "V", "I", "L", "C"}

\* the values of the netlist lines, by kind of component
Values(kind) == IF kind = "R" THEN {Q(-1), Zero, Q(2)} ELSE {Q(1)}

\* node names are numbered in the order of their first appearance in a
\* circuit: a line names "2" only when "1" is known or comes first on it
NamedInOrder(c, n1, n2) ==
    ("2" \in {n1, n2} /\ "2" \notin DOMAIN c.nodes) =>
        ("1" \in DOMAIN c.nodes \/ n1 = "1")

\* one more index than the largest a process can allocate
IndexBound == MaxCircuits + 3 * MaxLines

\* the iteration orders of the unordered maps considered for a process
ProcessOrders ==
    {[i \in 1..IndexBound |-> i - 1], [i \in 1..IndexBound |-> IndexBound - i]}

\* Solver::Solver's default tolerance, 1e-9
DefaultTolerance == <<1, 1000000000>>

\* Solver::Solver's default damping factor, 0.5
DefaultDamping == <<1, 2>>

\* the Simulator's max_iter: Solver's default, capped
SimulatorMaxIter == IF DefaultMaxIter < IterCap THEN DefaultMaxIter ELSE IterCap

\* the process starts: the statics of Node, no circuit yet, and a Simulator
\* with a default Solver and an empty solution vector
Init ==
    /\ node_count = 0
    /\ valid = FALSE
    /\ circuits = <<>>
    /\ cur = 0
    /\ thrown = FALSE
    /\ calls = [lines |-> 0, assembles |-> 0, runs |-> 0]
    /\ deployed = {}
    /\ mna_matrix = EmptyMap
    /\ mna_vector = EmptyMap
    /\ solution = EmptyMap
    /\ max_iter = SimulatorMaxIter
    /\ tolerance = DefaultTolerance
    /\ damping_factor = DefaultDamping
    /\ converge_iters = 0
    /\ converged = FALSE
    /\ lhs_values = EmptyMap
    /\ targets = EmptyMap
    /\ independent_targets = {}
    /\ iter_order \in ProcessOrders
    /\ pc = "idle"
    /\ pos = 0
    /\ step = NoStep

\* Circuit::Circuit
NewCircuit ==
    /\ pc = "idle"
    /\ Len(circuits) < MaxCircuits
    /\ circuits' = Append(circuits, Circuit(node_count).c)
    /\ node_count' = Circuit(node_count).nc
    /\ thrown' = FALSE
    /\ UNCHANGED <<solver_vars, valid, cur, calls, deployed>>

\* Circuit::parse_netlist reads one line; the line's id is new in the process
ParseLine ==
    /\ pc = "idle"
    /\ calls.lines < MaxLines
    /\ \E ci \in 1..Len(circuits), kind \in Kinds, n1, n2 \in NodeNames :
         \E value \in Values(kind) :
           /\ n1 # n2
           /\ NamedInOrder(circuits[ci], n1, n2)
           /\ LET r == parse_line([c |-> circuits[ci], nc |-> node_count],
                                  <<kind, calls.lines + 1>>, n1, n2, value)
              IN  /\ circuits' = [circuits EXCEPT ![ci] = r.c]
                  /\ node_count' = r.nc
                  /\ thrown' = r.thrown
    /\ calls' = [calls EXCEPT !.lines = @ + 1]
    /\ UNCHANGED <<solver_vars, valid, cur, deployed>>

\* Circuit::assemble_MNA_system
Assemble ==
    /\ pc = "idle"
    /\ calls.assembles < MaxAssembles
    /\ \E ci \in 1..Len(circuits) :
         circuits' = [circuits EXCEPT ![ci] = assemble_MNA_system(circuits[ci])]
    /\ thrown' = FALSE
    /\ calls' = [calls EXCEPT !.assembles = @ + 1]
    /\ UNCHANGED <<solver_vars, node_count, valid, cur, deployed>>

\* Simulator::run_dc_analysis up to the call of dc_solve: the circuit's
\* system is passed by reference and Solver::solve_MNA_system resizes the
\* Simulator's solution vector to mna_matrix.size() + 1
RunDC ==
    /\ pc = "idle"
    /\ calls.runs < MaxRuns
    /\ \E ci \in 1..Len(circuits) :
         /\ cur' = ci
         /\ mna_matrix' = circuits[ci].mna_matrix
         /\ mna_vector' = circuits[ci].mna_vector
         /\ solution' = Resize(solution, Size(circuits[ci].mna_matrix) + 1)
    /\ pc' = "call"
    /\ thrown' = FALSE
    /\ calls' = [calls EXCEPT !.runs = @ + 1]
    /\ UNCHANGED <<max_iter, tolerance, damping_factor, converge_iters,
                   converged, lhs_values, targets, independent_targets,
                   iter_order, pos, step, node_count, valid, circuits,
                   deployed>>

\* the end of Simulator::run_dc_analysis: circuit.deploy_dc_solution, which
\* throws at an index it cannot map and otherwise sets Node::valid
Deploy ==
    /\ pc = "done"
    /\ cur # 0
    /\ circuits' = [circuits EXCEPT
                      ![cur] = deploy_dc_solution(circuits[cur], solution)]
    /\ thrown' = (Unmapped(circuits[cur], solution) # {})
    /\ valid' = IF Unmapped(circuits[cur], solution) = {} THEN TRUE ELSE valid
    /\ deployed' = IF Unmapped(circuits[cur], solution) = {}
                   THEN deployed \cup {cur} ELSE deployed
    /\ cur' = 0
    /\ pc' = "idle"
    /\ UNCHANGED <<mna_matrix, mna_vector, solution, max_iter, tolerance,
                   damping_factor, converge_iters, converged, lhs_values,
                   targets, independent_targets, iter_order, pos, step,
                   node_count, calls>>

Next ==
    \/ NewCircuit
    \/ ParseLine
    \/ Assemble
    \/ RunDC
    \/ SolveStart
    \/ RowStep
    \/ OutOfBounds
    \/ EndSweep
    \/ Deploy

Spec == Init /\ [][Next]_vars


(***************************************************************************)
(* Properties of the process.                                              *)
(***************************************************************************)
\* the index of the ground node "0" of circuit c
GroundId(c) == c.nodes["0"].id

\* the row and column keys of a sparse matrix
MatrixKeys(m) == DOMAIN m \cup UNION {DOMAIN m[r] : r \in DOMAIN m}

\* whether the system of c is the one that a first assemble_MNA_system
\* builds from the components c has now
Assembled(c) ==
    LET sys == StampAll(c, DOMAIN c.components, EmptyMap, EmptyMap)
    IN  /\ c.mna_matrix = sys.mna_matrix
        /\ c.mna_vector = sys.mna_vector

\* whether a solve is in progress or has just returned in run_dc_analysis
Solving == cur # 0 /\ pc \in {"call", "sweep", "done"}

\* C3: in every circuit, after assemble_MNA_system, the index of the ground
\* node is neither a row key nor a column key of mna_matrix nor a key of
\* mna_vector, whichever terminal of a component is the grounded one
C3_NoGroundKey ==
    \A ci \in 1..Len(circuits) :
      Assembled(circuits[ci]) =>
        /\ GroundId(circuits[ci]) \notin MatrixKeys(circuits[ci].mna_matrix)
        /\ GroundId(circuits[ci]) \notin DOMAIN circuits[ci].mna_vector

\* C4: while a circuit whose ground has index 0 is solved, and on return,
\* solution[0] is 0.0, no row of the matrix has target 0 and no row update
\* writes slot 0
C4_GroundSlotUntouched ==
    (Solving /\ GroundId(circuits[cur]) = 0) =>
        /\ (0 \in DOMAIN solution => IsZero(solution[0]))
        /\ (step.kind = "update" => step.target # 0)
        /\ (pc \in {"sweep", "done"} =>
              \A row \in DOMAIN mna_matrix \cap DOMAIN targets :
                 targets[row] # 0)

\* C5: the ground node "0" has index 0 in every Circuit that is
\* constructed, a second Circuit of the same process included
C5_GroundIndexZero ==
    \A ci \in 1..Len(circuits) : GroundId(circuits[ci]) = 0

\* C6: when dc_solve is entered through Solver::solve_MNA_system, every slot
\* of the solution vector is 0.0, on a second run_dc_analysis of the same
\* Simulator as well
C6_ZeroFilledAtStart ==
    pc = "call" => \A i \in DOMAIN solution : IsZero(solution[i])

\* C7: for an assembled circuit, the solution vector of solve_MNA_system has
\* (number of non-ground nodes + number of extra variables) + 1 elements,
\* nodes without any stamp included
C7_SolutionLength ==
    (Solving /\ Assembled(circuits[cur])) =>
        Size(solution) = Cardinality(DOMAIN circuits[cur].nodeId_map)
                         + Cardinality(DOMAIN circuits[cur].extraVarId_map) + 1

RECURSIVE AllStamps(_, _)
AllStamps(c, ids) ==
    IF ids = {} THEN [matrixStamps |-> <<>>, vectorStamps |-> <<>>]
    ELSE LET id      == CHOOSE k \in ids : TRUE
             contrib == get_contribution(c, c.components[id])
             rest    == AllStamps(c, ids \ {id})
         IN  [matrixStamps |-> contrib.matrixStamps \o rest.matrixStamps,
              vectorStamps |-> contrib.vectorStamps \o rest.vectorStamps]

\* the sum of the values of the matrix stamps emitted for (row, col)
RECURSIVE SumMatrixStamps(_, _, _)
SumMatrixStamps(stamps, row, col) ==
    IF stamps = <<>> THEN Zero
    ELSE QAdd(IF Head(stamps)[1] = row /\ Head(stamps)[2] = col
              THEN Head(stamps)[3] ELSE Zero,
              SumMatrixStamps(Tail(stamps), row, col))

\* the sum of the values of the vector stamps emitted for row
RECURSIVE SumVectorStamps(_, _)
SumVectorStamps(stamps, row) ==
    IF stamps = <<>> THEN Zero
    ELSE QAdd(IF Head(stamps)[1] = row THEN Head(stamps)[2] ELSE Zero,
              SumVectorStamps(Tail(stamps), row))

\* the system of c holds, cell by cell, the sums of the stamps that the
\* components of c emit, and a cell for every stamp
SystemIsStampSums(c) ==
    LET st == AllStamps(c, DOMAIN c.components)
    IN  /\ \A row \in DOMAIN c.mna_matrix :
             \A col \in DOMAIN c.mna_matrix[row] :
                c.mna_matrix[row][col]
                   = SumMatrixStamps(st.matrixStamps, row, col)
        /\ \A i \in 1..Len(st.matrixStamps) :
              /\ st.matrixStamps[i][1] \in DOMAIN c.mna_matrix
              /\ st.matrixStamps[i][2]
                    \in DOMAIN c.mna_matrix[st.matrixStamps[i][1]]
        /\ \A row \in DOMAIN c.mna_vector :
              c.mna_vector[row] = SumVectorStamps(st.vectorStamps, row)
        /\ \A i \in 1..Len(st.vectorStamps) :
              st.vectorStamps[i][1] \in DOMAIN c.mna_vector

\* whether the step is an assemble_MNA_system call on circuit ci
AssembleStep(ci) ==
    /\ calls'.assembles = calls.assembles + 1
    /\ circuits'[ci] # circuits[ci]

\* C12: one assemble_MNA_system call on a freshly parsed circuit (nothing
\* stamped yet) leaves in A[row][col] the sum of all matrix stamps emitted
\* for (row, col) and in b[row] the sum of all vector stamps emitted for
\* row: stamps on one cell add up, none overwrites an earlier one
C12_StampsAccumulate ==
    [][\A ci \in 1..Len(circuits) :
         (/\ AssembleStep(ci)
          /\ circuits[ci].mna_matrix = EmptyMap
          /\ circuits[ci].mna_vector = EmptyMap)
            => SystemIsStampSums(circuits'[ci])]_vars

\* a circuit whose assembled system holds the stamp sums and in which two
\* stamps fell on the same cell of the matrix
C12_Witness ==
    \E ci \in 1..Len(circuits) :
       LET c  == circuits[ci]
           st == AllStamps(c, DOMAIN c.components).matrixStamps
       IN  /\ c.mna_matrix # EmptyMap
           /\ SystemIsStampSums(c)
           /\ \E i, j \in 1..Len(st) :
                 /\ i # j
                 /\ st[i][1] = st[j][1]
                 /\ st[i][2] = st[j][2]
                 /\ ~IsZero(c.mna_matrix[st[i][1]][st[i][2]])

\* A[row][col] read without inserting: 0.0 where nothing was stamped
Coef(m, row, col) ==
    IF row \in DOMAIN m /\ col \in DOMAIN m[row] THEN m[row][col] ELSE Zero

\* a netlist of resistors only
ResistorOnly(c) ==
    /\ DOMAIN c.components # {}
    /\ \A id \in DOMAIN c.components : c.components[id].kind = "R"

\* the sum of 1/R over the resistors among ids that have node `name` as a
\* terminal
RECURSIVE IncidentConductance(_, _, _)
IncidentConductance(c, ids, name) ==
    IF ids = {}
    THEN Zero
    ELSE LET id   == CHOOSE x \in ids : TRUE
             comp == c.components[id]
             rest == IncidentConductance(c, ids \ {id}, name)
         IN  IF comp.kind = "R" /\ name \in {comp.ni, comp.nj}
             THEN QAdd(QDiv(One, comp.value), rest)
             ELSE rest

\* C13: in the assembled matrix of a resistor-only netlist, the diagonal
\* entry of every non-ground node is the sum of 1/R over the resistors
\* incident to the node, resistors to ground included whichever terminal
\* the ground is
C13_DiagonalIsConductanceSum ==
    \A ci \in 1..Len(circuits) :
       LET c == circuits[ci]
       IN  (ResistorOnly(c) /\ Assembled(c)) =>
              \A name \in DOMAIN c.nodes \ {"0"} :
                 Coef(c.mna_matrix, c.nodes[name].id, c.nodes[name].id) =
                    IncidentConductance(c, DOMAIN c.components, name)

\* C14: the assembled matrix of a resistor-only netlist is symmetric
C14_ResistorMatrixSymmetric ==
    \A ci \in 1..Len(circuits) :
       LET c == circuits[ci]
       IN  ResistorOnly(c) =>
              \A i, j \in MatrixKeys(c.mna_matrix) :
                 Coef(c.mna_matrix, i, j) = Coef(c.mna_matrix, j, i)

\* an assembled resistor-only netlist with a resistor between two nodes
\* off ground: the matrix has entries off the diagonal
C14_Witness ==
    \E ci \in 1..Len(circuits) :
       LET c == circuits[ci]
       IN  /\ ResistorOnly(c)
           /\ Assembled(c)
           /\ \E i, j \in MatrixKeys(c.mna_matrix) :
                 i # j /\ ~IsZero(Coef(c.mna_matrix, i, j))

\* the stamps of a sequence, as a set
StampSet(stamps) == {stamps[n] : n \in 1..Len(stamps)}

\* whether a contribution consists of exactly the given matrix and vector
\* stamps, each emitted once
EmitsExactly(contribution, matrixStamps, vectorStamps) ==
    /\ StampSet(contribution.matrixStamps) = matrixStamps
    /\ Len(contribution.matrixStamps) = Cardinality(matrixStamps)
    /\ StampSet(contribution.vectorStamps) = vectorStamps
    /\ Len(contribution.vectorStamps) = Cardinality(vectorStamps)

\* C15: a voltage source of value V with + node i, - node j and extra
\* variable k emits exactly A[i][k] += 1, A[k][i] += 1, A[j][k] -= 1,
\* A[k][j] -= 1 and b[k] += V, without the stamps that touch ground, and
\* no vector stamp on a node row
C15_VoltageSourceStamp ==
    \A ci \in 1..Len(circuits) :
       LET c == circuits[ci]
       IN  \A id \in DOMAIN c.components :
              LET comp == c.components[id]
                  i    == c.nodes[comp.ni].id
                  j    == c.nodes[comp.nj].id
                  k    == comp.vc_id
              IN  comp.kind = "V" =>
                     EmitsExactly(get_contribution(c, comp),
                        (IF comp.ni # "0"
                         THEN {<<i, k, One>>, <<k, i, One>>} ELSE {}) \cup
                        (IF comp.nj # "0"
                         THEN {<<j, k, Q(-1)>>, <<k, j, Q(-1)>>} ELSE {}),
                        {<<k, comp.value>>})

\* C16: an inductor between nodes i and j with extra variable k emits the
\* matrix stamps of a voltage source between the same nodes with the same
\* extra variable, and no vector stamp, whichever terminals are grounded
C16_InductorLikeVoltageSource ==
    \A ci \in 1..Len(circuits) :
       LET c == circuits[ci]
       IN  \A id \in DOMAIN c.components :
              LET comp == c.components[id]
                  i    == c.nodes[comp.ni].id
                  j    == c.nodes[comp.nj].id
                  k    == comp.vc_id
              IN  comp.kind = "L" =>
                     EmitsExactly(get_contribution(c, comp),
                        StampSet(Voltage_source_contribution(i, j, k, One)
                                    .matrixStamps),
                        {})

\* whether node `name` of c has a resistor to ground and a capacitor, and
\* nothing else: every component on it is a capacitor or a resistor whose
\* other terminal is the ground node
BehindCapacitors(c, name) ==
    LET on == {id \in DOMAIN c.components :
                 name \in {c.components[id].ni, c.components[id].nj}}
    IN  /\ name # "0"
        /\ \E id \in on : c.components[id].kind = "C"
        /\ \E id \in on : c.components[id].kind = "R"
        /\ \A id \in on :
              \/ c.components[id].kind = "C"
              \/ /\ c.components[id].kind = "R"
                 /\ "0" \in {c.components[id].ni, c.components[id].nj}

C18_NoNonPositiveResistor ==
    \A ci \in 1..Len(circuits) :
       \A id \in DOMAIN circuits[ci].components :
          circuits[ci].components[id].kind = "R" =>
             QLess(Zero, circuits[ci].components[id].value)

\* C19: get_voltage_drop of a Resistor, Capacitor or Current_source throws
\* as long as no deploy has completed for the circuit that owns the
\* component, whatever was solved in other circuits of the process, and
\* returns ni.voltage - nj.voltage once one has
C19_VoltageDropNeedsOwnDeploy ==
    \A ci \in 1..Len(circuits) :
       LET c == circuits[ci]
       IN  \A id \in DOMAIN c.components :
              LET comp == c.components[id]
                  r    == get_voltage_drop(c, comp)
              IN  comp.kind \in {"R", "C", "I"} =>
                     IF ci \in deployed
                     THEN /\ ~r.thrown
                          /\ r.value = QSub(c.nodes[comp.ni].voltage,
                                            c.nodes[comp.nj].voltage)
                     ELSE r.thrown

(***************************************************************************)
(* dc_solve on systems of PivotRows equations in PivotDim unknowns with    *)
(* coefficients of different magnitudes: the systems on which the choice   *)
(* of handle_zero_diagonal among several candidate columns shows.          *)
(***************************************************************************)
PivotDim == 3

PivotRows == 2

PivotMaxIter == 3

\* absent, 0.0 stored explicitly, and two magnitudes
PivotValues == {Q(-2), Zero, One}

\* ascending and descending iteration order of the maps
PivotOrders ==
    {[i \in 1..PivotDim |-> i], [i \in 1..PivotDim |-> PivotDim + 1 - i]}

PivotInit ==
    /\ \E cells \in SUBSET ((1..PivotDim) \X (1..PivotDim)) :
         /\ Cardinality({c[1] : c \in cells}) <= PivotRows
         /\ \E v \in [cells -> PivotValues] :
               mna_matrix = MatrixOf(cells, v)
    /\ mna_vector = [r \in DOMAIN mna_matrix |-> One]
    /\ solution = [i \in 0..PivotDim |-> Zero]
    /\ max_iter = PivotMaxIter
    /\ tolerance \in ToleranceValues
    /\ damping_factor = One
    /\ iter_order \in PivotOrders
    /\ converge_iters = 0
    /\ converged = FALSE
    /\ lhs_values = <<>>
    /\ targets = <<>>
    /\ independent_targets = {}
    /\ pc = "call"
    /\ pos = 0
    /\ step = NoStep
    /\ node_count = 0
    /\ valid = FALSE
    /\ circuits = <<>>
    /\ cur = 0
    /\ thrown = FALSE
    /\ calls = [lines |-> 0, assembles |-> 0, runs |-> 0]
    /\ deployed = {}

PivotSpec == PivotInit /\ [][SolverNext]_vars

\* the columns of a row that handle_zero_diagonal may adopt: the entries
\* that are nonzero and not in independent_targets
Candidates(col_map, indep) ==
    {col \in DOMAIN col_map : ~IsZero(col_map[col]) /\ col \notin indep}

\* the place of a column in the row's iteration order
PlaceOf(col_map, col) ==
    CHOOSE n \in 1..Len(KeysInOrder(col_map)) : KeysInOrder(col_map)[n] = col

\* whether col has the largest absolute coefficient among the candidates
\* and comes first in the iteration order among those of that magnitude
LargestFirstMet(col_map, indep, col) ==
    /\ col \in Candidates(col_map, indep)
    /\ \A other \in Candidates(col_map, indep) :
          /\ QLeq(QAbs(col_map[other]), QAbs(col_map[col]))
          /\ QAbs(col_map[other]) = QAbs(col_map[col]) =>
                PlaceOf(col_map, col) <= PlaceOf(col_map, other)

\* C20: in a pass over a row whose coefficient at its current target is
\* absent or 0.0, the row's new target is the column with the largest
\* absolute coefficient among the row's entries that are nonzero and not in
\* independent_targets, the first one met in iteration order on equal
\* absolute values
C20_AdoptsLargestFirstMet ==
    [][(/\ pc = "sweep"
        /\ pos' = pos + 1
        /\ ~HasUsableDiagonal(targets, KeysInOrder(mna_matrix)[pos + 1],
                              mna_matrix[KeysInOrder(mna_matrix)[pos + 1]])
        /\ Candidates(mna_matrix[KeysInOrder(mna_matrix)[pos + 1]],
                      independent_targets) # {})
          => LargestFirstMet(mna_matrix[KeysInOrder(mna_matrix)[pos + 1]],
                             independent_targets,
                             targets'[KeysInOrder(mna_matrix)[pos + 1]])]_vars

\* the first row pass of a solve has adopted a column for a row without
\* diagonal entry, although another candidate column with a smaller
\* absolute coefficient came first in the iteration order
C20_Witness ==
    /\ step.kind = "update"
    /\ step.iter = 1
    /\ pos = 1
    /\ step.target # step.row
    /\ LET col_map == mna_matrix[step.row]
       IN  /\ ~Has(col_map, step.row)
           /\ \E other \in DOMAIN col_map \ independent_targets :
                 /\ other # step.target
                 /\ ~IsZero(col_map[other])
                 /\ PlaceOf(col_map, other) < PlaceOf(col_map, step.target)
                 /\ QLess(QAbs(col_map[other]), QAbs(col_map[step.target]))

\* the row of the pass that a RowStep from this state makes
NextRow == KeysInOrder(mna_matrix)[pos + 1]

\* a step that is a pass of the loop over the rows
RowPass == pc = "sweep" /\ pos' = pos + 1

\* C21: once a variable is in independent_targets, the row it is assigned
\* to keeps it for the rest of the solve: no pass of any row takes it as
\* replacement, no swap gives that row another variable, and the variable
\* stays in independent_targets
C21_IndependentTargetsStay ==
    [][pc = "sweep" =>
          \A r \in DOMAIN targets :
             targets[r] \in independent_targets =>
                /\ targets'[r] = targets[r]
                /\ targets[r] \in independent_targets']_vars

\* the second pass of the first sweep has adopted a column for its row
\* although the row has a larger coefficient in the column that the first
\* row holds as independent variable
C21_Witness ==
    /\ step.kind = "update"
    /\ step.iter = 1
    /\ pos = 2
    /\ LET r1 == KeysInOrder(mna_matrix)[1]
           r2 == step.row
       IN  /\ targets[r1] \in independent_targets
           /\ step.target \notin {r1, r2}
           /\ Has(mna_matrix[r2], targets[r1])
           /\ QLess(QAbs(mna_matrix[r2][step.target]),
                    QAbs(mna_matrix[r2][targets[r1]]))

\* C22: a pass that adopts a new target for its row adds it to
\* independent_targets if and only if the row has exactly one nonzero
\* coefficient in a column that is not independent yet; with two or more
\* such columns the largest is adopted and independent_targets stays
C22_IndependentIffSingleCandidate ==
    [][(/\ RowPass
        /\ ~HasUsableDiagonal(targets, NextRow, mna_matrix[NextRow])
        /\ Candidates(mna_matrix[NextRow], independent_targets) # {})
          => /\ LargestFirstMet(mna_matrix[NextRow], independent_targets,
                                targets'[NextRow])
             /\ IF Cardinality(Candidates(mna_matrix[NextRow],
                                          independent_targets)) = 1
                THEN independent_targets' =
                        independent_targets \cup {targets'[NextRow]}
                ELSE independent_targets' = independent_targets]_vars

\* after the first pass of a solve: a row with two candidate columns has
\* adopted one of them and independent_targets is still empty
C22_Witness ==
    /\ step.kind = "update"
    /\ step.iter = 1
    /\ pos = 1
    /\ step.target # step.row
    /\ independent_targets = {}
    /\ Cardinality(Candidates(mna_matrix[step.row], {})) >= 2

\* a row whose coefficients are all 0.0 or absent
AllZeroRow(col_map) == \A col \in DOMAIN col_map : IsZero(col_map[col])

\* C23: the rows skipped in a sweep are exactly the rows whose
\* coefficients are all zero or absent; a row with a nonzero coefficient
\* is given a usable target and updated
C23_SkippedIffAllZero ==
    step.kind \in {"skip", "update"} =>
       ((step.kind = "skip") <=> AllZeroRow(mna_matrix[step.row]))

\* the sum of col_map[col] * x[col] over the columns in cols
RECURSIVE Dot(_, _, _)
Dot(col_map, cols, x) ==
    IF cols = {} THEN Zero
    ELSE LET col == CHOOSE c \in cols : TRUE
         IN  QAdd(QMul(col_map[col], x[col]), Dot(col_map, cols \ {col}, x))

\* C24: a row update within a sweep is computed from the contents of x at
\* the time of the pass, the values written by the rows visited earlier in
\* the same sweep included, never from a snapshot of x taken earlier
C24_UsesFreshestValues ==
    [][(RowPass /\ step'.kind = "update") =>
          \A row \in {NextRow} :
          \A tgt \in {targets'[row]} :
          \A sum \in {Dot(mna_matrix[row], DOMAIN mna_matrix[row] \ {tgt},
                          solution)} :
          \A x_new \in {QDiv(QSub(Rhs(mna_vector, row), sum),
                             mna_matrix[row][tgt])} :
             solution' = [solution EXCEPT
                            ![tgt] = Damped(damping_factor, x_new,
                                            solution[tgt])]]_vars

\* the second pass of the first sweep has updated its row, which has a
\* nonzero coefficient at the variable that the first pass wrote a nonzero
\* value to
C24_Witness ==
    /\ step.kind = "update"
    /\ step.iter = 1
    /\ pos = 2
    /\ LET r1 == KeysInOrder(mna_matrix)[1]
       IN  /\ targets[r1] # step.target
           /\ Has(mna_matrix[step.row], targets[r1])
           /\ ~IsZero(mna_matrix[step.row][targets[r1]])
           /\ ~IsZero(solution[targets[r1]])

(***************************************************************************)
(* dc_solve as sequential code: a statement that can be executed is        *)
(* executed, so every step of a solve in progress is eventually taken.     *)
(***************************************************************************)
\* the systems with a right-hand side on every row, solved without damping
FairSolverInit ==
    /\ SolverInit
    /\ DOMAIN mna_vector = 1..Dim
    /\ damping_factor = One

\* RowStep by its guard and the position it advances: the steps of
\* SolverNext that satisfy it are the RowStep steps, and it is enabled
\* exactly when RowStep is
RowStepTaken ==
    /\ pc = "sweep"
    /\ pos < Len(KeysInOrder(mna_matrix))
    /\ AccessInBounds(targets, independent_targets, NextRow,
                      mna_matrix[NextRow], solution)
    /\ pos' = pos + 1

FairSolverSpec ==
    /\ FairSolverInit
    /\ [][SolverNext]_vars
    /\ WF_vars(SolveStart)
    /\ WF_pos(RowStepTaken)
    /\ WF_vars(EndSweep)

\* C25: for every (A, b) and every max_iter a call of dc_solve returns,
\* and no sweep beyond the max_iter-th is ever started
C25_Terminates ==
    /\ (pc # "done") ~> (pc = "done")
    /\ [](pc = "sweep" => converge_iters <= max_iter)

\* the second solve of a solver with the largest max_iter has returned
\* after running out of sweeps
C25_Witness ==
    /\ pc = "done"
    /\ calls.runs = MaxRecalls
    /\ max_iter = MaxIter
    /\ converge_iters = max_iter
    /\ ~converged

\* the largest number of sweeps after which a recurring pivot state is
\* looked for
MaxPeriod == 2

\* the passes of handle_zero_diagonal over the rows of a sweep, started
\* with targets tg and independent_targets indep
RECURSIVE PivotPasses(_, _, _)
PivotPasses(rows, tg, indep) ==
    IF rows = <<>>
    THEN [targets |-> tg, independent_targets |-> indep]
    ELSE LET hz == handle_zero_diagonal(tg, indep, Head(rows),
                                        mna_matrix[Head(rows)])
         IN  PivotPasses(Tail(rows), hz.targets, hz.independent_targets)

\* the same after n sweeps
RECURSIVE PivotSweeps(_, _, _)
PivotSweeps(n, tg, indep) ==
    IF n = 0
    THEN [targets |-> tg, independent_targets |-> indep]
    ELSE LET one == PivotPasses(KeysInOrder(mna_matrix), tg, indep)
         IN  PivotSweeps(n - 1, one.targets, one.independent_targets)

\* whether no handle_zero_diagonal call of a sweep started with tg and
\* indep changes targets or independent_targets
Stabilized(tg, indep) ==
    \A row \in DOMAIN mna_matrix :
       handle_zero_diagonal(tg, indep, row, mna_matrix[row]) =
          [targets |-> tg, independent_targets |-> indep]

\* C26: the target assignment of a solve stabilizes: a sweep whose
\* handle_zero_diagonal calls change targets or independent_targets never
\* starts from a state of targets and independent_targets to which the
\* sweeps lead back, so rows do not keep taking a target from each other
\* sweep after sweep
C26_PivotsStabilize ==
    (pc = "sweep" /\ pos = 0) =>
       \A n \in 1..MaxPeriod :
          PivotSweeps(n, targets, independent_targets) =
             [targets |-> targets,
              independent_targets |-> independent_targets]
                => Stabilized(targets, independent_targets)


----------------------------------------------------------------------------
\* The lengths that Solver::solve_MNA_system and Gauss_seidel::initialize
\* give to solution, targets and lhs_values for the system of c

\* the length of the solution vector for the matrix m (solver.cpp line 10);
\* targets and lhs_values get solution.size() elements too
SolverSize(m) == Size(m) + 1

----------------------------------------------------------------------------
\* The assignment of unknowns to rows between the passes of a solve

\* the column keys of the matrix m
ColumnKeys(m) == UNION {DOMAIN m[r] : r \in DOMAIN m}

\* whether tg assigns every index of 0..size-1 to exactly one place
IsPermutation(tg, size) ==
    /\ DOMAIN tg = 0..(size - 1)
    /\ \A i \in DOMAIN tg : tg[i] \in 0..(size - 1)
    /\ \A i, j \in DOMAIN tg : tg[i] = tg[j] => i = j

\* C28: between the row steps of a solve targets is a permutation of
\* 0..size-1, no variable targeted twice and none left out, provided every
\* column key of the matrix is smaller than size
C28_TargetsIsPermutation ==
    (/\ pc \in {"sweep", "done"}
     /\ \A col \in ColumnKeys(mna_matrix) : col < Size(solution))
        => IsPermutation(targets, Size(solution))

\* a swap has just moved two targets, and they are still moved
C28_Witness ==
    /\ pc = "sweep"
    /\ step.kind = "update"
    /\ step.target # step.row
    /\ targets[step.row] = step.target
    /\ \E i \in DOMAIN targets : i # step.row /\ targets[i] # i
    /\ \A col \in ColumnKeys(mna_matrix) : col < Size(solution)

----------------------------------------------------------------------------
\* assemble_MNA_system called again

\* whether the step is a call of assemble_MNA_system
AssembleCall == calls'.assembles = calls.assembles + 1

\* C29: assemble_MNA_system is idempotent: a call on a circuit whose system
\* is the one a first call built leaves the same matrix A and the same
\* vector b
C29_AssembleIdempotent ==
    [][AssembleCall =>
         \A ci \in 1..Len(circuits) :
            Assembled(circuits[ci]) =>
               /\ circuits'[ci].mna_matrix = circuits[ci].mna_matrix
               /\ circuits'[ci].mna_vector = circuits[ci].mna_vector]_vars

----------------------------------------------------------------------------
\* The result of dc_solve against the state its last sweep left

\* C30: if at the end of the last sweep of dc_solve every row i of
\* 0..size-1 has |lhs_values[i] - b[i]| <= tolerance, dc_solve returns
\* converged = true, for every max_iter >= 2, whether or not the number of
\* the last sweep is a multiple of 5
C30_ConvergedWhenLastSweepSolves ==
    (/\ pc = "done"
     /\ max_iter >= 2
     /\ check_convergence(lhs_values, mna_vector, tolerance, Size(solution)))
        => converged

============================================================================
